---- MODULE Spec2Model ----
(***************************************************************************)
(* Model of download_lesson_study.py: the lesson-period calculation, the   *)
(* cleanup of stale lesson files, the search step that rebuilds urls.txt,  *)
(* the download step with its downloaded.txt ledger, and the daily fetch.  *)
(* File names are sequences of one-character strings so that the glob and  *)
(* regular-expression matching of the program is computed, not assumed.    *)
(***************************************************************************)
EXTENDS Integers, Sequences, FiniteSets, TLC

\* ------------------------------------------------------------------ bounds
\* number of invocations of the script in one behaviour
MaxRuns == 2
\* at most this many channels answer with a URL in one invocation
MaxStoreLines == 2
\* at most this many os.remove calls of one purge fail
MaxDeleteFail == 1
\* the CDN has published the files of at most this many days of a week
MaxDailyFiles == 1
\* longest urls.txt / downloaded.txt drawn for the stand-alone download runs
MaxLen == 2
\* stand-alone calls of download_audio_from_urls in a row
MaxCalls == 2
\* get_quarter_and_week on its own is called with the dates of so many days
MaxDays == 400
\* the daily fetch on its own is run on so many days after the first
MaxTodays == 6
\* longest raw title handed to the title extraction on its own
MaxTitleLen == 4

\* ------------------------------------------------------- datetime (library)
IsLeap(y) == (y % 4 = 0) /\ ((y % 100 # 0) \/ (y % 400 = 0))

DaysBeforeYear(y) == (y - 1) * 365 + ((y - 1) \div 4) - ((y - 1) \div 100) + ((y - 1) \div 400)

DaysInMonth(y, m) ==
    IF m = 2 THEN (IF IsLeap(y) THEN 29 ELSE 28)
    ELSE IF m \in {4, 6, 9, 11} THEN 30 ELSE 31

RECURSIVE DaysBeforeMonth(_, _)
DaysBeforeMonth(y, m) == IF m = 1 THEN 0 ELSE DaysBeforeMonth(y, m - 1) + DaysInMonth(y, m - 1)

\* datetime(y, m, d).toordinal(): day 1 is 0001-01-01
Ordinal(y, m, d) == DaysBeforeYear(y) + DaysBeforeMonth(y, m) + d

Years == 2024..2026

YearOf(n) == CHOOSE y \in Years : DaysBeforeYear(y) < n /\ n <= DaysBeforeYear(y + 1)

MonthOf(n) ==
    LET y == YearOf(n)
        k == n - DaysBeforeYear(y)
    IN  CHOOSE m \in 1..12 : DaysBeforeMonth(y, m) < k /\ k <= DaysBeforeMonth(y, m) + DaysInMonth(y, m)

DayOf(n) == n - DaysBeforeYear(YearOf(n)) - DaysBeforeMonth(YearOf(n), MonthOf(n))

\* datetime.weekday(): Monday is 0, Saturday is 5
Weekday(n) == (n + 6) % 7

\* ------------------------------------------------------ get_quarter_and_week
quarter_start_month(month) ==
    IF 1 <= month /\ month <= 3 THEN 1
    ELSE IF 4 <= month /\ month <= 6 THEN 4
    ELSE IF 7 <= month /\ month <= 9 THEN 7
    ELSE 10

quarter_of(month) ==
    IF 1 <= month /\ month <= 3 THEN 1
    ELSE IF 4 <= month /\ month <= 6 THEN 2
    ELSE IF 7 <= month /\ month <= 9 THEN 3
    ELSE 4

\* mutant: Saturday taken to be weekday 6, as isoweekday() numbers it
week_start_date_IsoSaturday(date) ==
    LET quarter_start == Ordinal(YearOf(date), quarter_start_month(MonthOf(date)), 1)
        days_since_saturday == (Weekday(quarter_start) - 6) % 7
    IN  quarter_start - days_since_saturday

week_start_date(date) ==
    LET quarter_start == Ordinal(YearOf(date), quarter_start_month(MonthOf(date)), 1)
        days_since_saturday == (Weekday(quarter_start) - 5) % 7
    IN  quarter_start - days_since_saturday

\* mutant: the remainder of the division by 7 is taken instead of the quotient
get_quarter_and_week_Remainder(date) ==
    LET day_difference == date - week_start_date(date)
    IN  <<quarter_of(MonthOf(date)), (day_difference % 7) + 1>>

\* returns <<quarter, week_of_quarter>>
get_quarter_and_week(date) ==
    LET day_difference == date - week_start_date(date)
    IN  <<quarter_of(MonthOf(date)), (day_difference \div 7) + 1>>

\* ------------------------------------------------------------- characters
Digits == <<"0", "1", "2", "3", "4", "5", "6", "7", "8", "9">>

IsDigit(c) == \E k \in 1..10 : Digits[k] = c

DigitVal(c) == (CHOOSE k \in 1..10 : Digits[k] = c) - 1

IsSpace(c) == c = " "

\* the characters of s from position i, n of them, equal the word w
HasAt(s, i, w) == i >= 1 /\ i + Len(w) - 1 <= Len(s) /\ \A k \in 1..Len(w) : s[i + k - 1] = w[k]

EndsWith(s, w) == Len(s) >= Len(w) /\ HasAt(s, Len(s) - Len(w) + 1, w)

Dot_mp3 == <<".", "m", "p", "3">>
Dot_m4a == <<".", "m", "4", "a">>
Word_Lesson == <<"L", "e", "s", "s", "o", "n">>

\* strftime('%Y-%m-%d') + '.mp3'
formatted_date(n) ==
    LET y == YearOf(n)
        m == MonthOf(n)
        d == DayOf(n)
        D(k) == Digits[k + 1]
    IN  <<D(y \div 1000), D((y \div 100) % 10), D((y \div 10) % 10), D(y % 10), "-",
          D(m \div 10), D(m % 10), "-", D(d \div 10), D(d % 10)>>

DailyName(n) == formatted_date(n) \o Dot_mp3

\* ------------------------------------------------------------------- glob
\* glob.glob("*" + ext): a pattern starting with * never matches a name
\* starting with a dot
GlobExt(name, ext) == Len(name) >= 1 /\ name[1] # "." /\ EndsWith(name, ext)

\* glob.glob("*Lesson*" + ext)
GlobLesson(name, ext) ==
    /\ GlobExt(name, ext)
    /\ \E i \in 1..Len(name) : HasAt(name, i, Word_Lesson) /\ i + 5 <= Len(name) - Len(ext)

\* ------------------------------------------------- lesson_pattern (regex)
\* \s* : first position at or after i that does not hold white space
RECURSIVE SkipSpaces(_, _)
SkipSpaces(s, i) == IF i <= Len(s) /\ IsSpace(s[i]) THEN SkipSpaces(s, i + 1) ELSE i

\* \d+ (greedy): first position at or after i that does not hold a digit
RECURSIVE SkipDigits(_, _)
SkipDigits(s, i) == IF i <= Len(s) /\ IsDigit(s[i]) THEN SkipDigits(s, i + 1) ELSE i

\* int() of the digits s[i..j-1]
RECURSIVE IntOf(_, _, _)
IntOf(s, i, j) == IF j <= i THEN 0 ELSE IntOf(s, i, j - 1) * 10 + DigitVal(s[j - 1])

DigitAt(s, i) == i >= 1 /\ i <= Len(s) /\ IsDigit(s[i])

\* (\d{4})\s*Q(\d)\s*Lesson\s*(\d+) tried at position i: the positions of Q,
\* of the word and of the number when it matches there
MatchAt(s, i) ==
    /\ \A k \in 0..3 : DigitAt(s, i + k)
    /\ LET q == SkipSpaces(s, i + 4)
       IN  /\ HasAt(s, q, <<"Q">>)
           /\ DigitAt(s, q + 1)
           /\ LET w == SkipSpaces(s, q + 2)
              IN  /\ HasAt(s, w, Word_Lesson)
                  /\ DigitAt(s, SkipSpaces(s, w + 6))

\* re.search: the leftmost position at or after i where the pattern matches, 0 when none
RECURSIVE SearchFrom(_, _)
SearchFrom(s, i) == IF i > Len(s) THEN 0 ELSE IF MatchAt(s, i) THEN i ELSE SearchFrom(s, i + 1)

\* re.search(lesson_pattern, file_name) finds a match
lesson_match(s) == SearchFrom(s, 1) # 0

\* <<file_year, file_quarter, file_lesson_number>> of the leftmost match
lesson_groups(s) ==
    LET i == SearchFrom(s, 1)
        q == SkipSpaces(s, i + 4)
        n == SkipSpaces(s, SkipSpaces(s, q + 2) + 6)
    IN  <<IntOf(s, i, i + 4), DigitVal(s[q + 1]), IntOf(s, n, SkipDigits(s, n))>>

\* the comparison of lines 258-260
is_older(f, c) ==
    \/ f[1] < c[1]
    \/ (f[1] = c[1] /\ f[2] < c[2])
    \/ (f[1] = c[1] /\ f[2] = c[2] /\ f[3] < c[3])

\* ------------------------------------------------------------ environment
None == "None"
NoneTitle == <<"None">>

\* CHANNEL_IDS in insertion order
CHANNEL_IDS == <<"3abn", "itiswritten", "hopess", "claudiocarneiro", "HopeLives365", "egwhiteaudio">>

\* the videos the Search Provider can answer with
URLS == {"u1", "u2"}

Y2025 == <<"2", "0", "2", "5">>

LessonName(n, ext) == Y2025 \o <<" ", "Q", "1", " ">> \o Word_Lesson \o <<" ", Digits[n + 1]>> \o ext

\* the audio file the Download Provider writes for a video (named after its title)
VideoFile(url) == IF url = "u1" THEN LessonName(2, Dot_m4a) ELSE LessonName(3, Dot_m4a)

\* audio files that may lie in the working directory before the first invocation:
\* an old lesson, and a name with the word Lesson but no period in it
InitialFiles == {LessonName(1, Dot_mp3), Word_Lesson \o Dot_mp3}

\* the directories the first invocation can find
InitialDirs == SUBSET InitialFiles

\* raw titles the Title Lookup can find: "A | B", "| B" and "A"
RawTitles == {<<"A", " ", "|", " ", "B">>, <<"|", " ", "B">>, <<"A">>}

\* datetime.today() of the invocations: a Wednesday in week 3 of the quarter,
\* when the video of u1 is a lesson behind, and the Wednesday after
FirstDay == Ordinal(2025, 1, 15)
RunDays == {FirstDay, FirstDay + 7}

\* a text file of the working directory: absent, or its lines
Absent == [exists |-> FALSE, lines |-> <<>>]
TextFile(ls) == [exists |-> TRUE, lines |-> ls]

\* mutant: the file is opened with 'w', so earlier lines are lost
AppendLine_Overwrite(f, line) == [exists |-> TRUE, lines |-> <<line>>]

\* open(f, 'a').write(line + "\n"): creates the file when it is absent
AppendLine(f, line) == [exists |-> TRUE, lines |-> Append(f.lines, line)]

\* mutant: the first line of the file is not loaded
LineSet_SkipFirst(f) == {f.lines[k] : k \in 2..Len(f.lines)}

\* set(f.read().splitlines())
LineSet(f) == {f.lines[k] : k \in 1..Len(f.lines)}

RECURSIVE SeqsUpTo(_, _)
SeqsUpTo(S, n) == IF n = 0 THEN {<<>>} ELSE SeqsUpTo(S, n - 1) \cup {Append(q, x) : q \in SeqsUpTo(S, n - 1), x \in S}

\* every order in which a directory listing can return the names of S
RECURSIVE Orders(_)
Orders(S) == IF S = {} THEN {<<>>} ELSE UNION {{<<x>> \o q : q \in Orders(S \ {x})} : x \in S}

\* -------------------------------------------------------- get_lesson_title
\* str.strip(chars) for a set of characters
RECURSIVE LStrip(_, _)
LStrip(s, cs) == IF s # <<>> /\ Head(s) \in cs THEN LStrip(Tail(s), cs) ELSE s

RECURSIVE RStrip(_, _)
RStrip(s, cs) == IF s # <<>> /\ s[Len(s)] \in cs THEN RStrip(SubSeq(s, 1, Len(s) - 1), cs) ELSE s

Strip(s, cs) == RStrip(LStrip(s, cs), cs)

HasPipe(s) == \E k \in 1..Len(s) : s[k] = "|"

\* video_title.split("|")[0]
BeforePipe(s) == SubSeq(s, 1, (CHOOSE k \in 1..Len(s) : s[k] = "|" /\ \A j \in 1..(k - 1) : s[j] # "|") - 1)

\* lines 120-127; the curly quotes are written LDQ and RDQ
extract_title(video_title) ==
    IF HasPipe(video_title)
    THEN Strip(Strip(Strip(Strip(Strip(BeforePipe(video_title), {" "}), {"\""}), {"LDQ"}), {"RDQ"}), {"'"})
    ELSE Strip(video_title, {" "})

\* what ydl.extract_info gives: an exception, no entries, or a first entry
TitleResponses ==
    {[kind |-> "exception", title |-> <<>>], [kind |-> "no_entries", title |-> <<>>]}
    \cup {[kind |-> "entry", title |-> t] : t \in RawTitles}

get_lesson_title(resp) == IF resp.kind = "entry" THEN extract_title(resp.title) ELSE NoneTitle

\* mutant: `lesson_title is None`, an empty title goes on to the search
NoTitle_OnlyNone(t) == t = NoneTitle

\* `not lesson_title`
NoTitle(t) == t = NoneTitle \/ t = <<>>

\* ------------------------------------------------ search_videos_on_youtube
\* what youtube.search().list().execute() gives
SearchResponses == {"HttpError", "KeyError", "Exception", "no_items"} \cup URLS

search_videos_on_youtube(resp) == IF resp \in URLS THEN resp ELSE None

\* ------------------------------------------------------------------ state
VARIABLES
    pc,               \* position of the script
    runs,             \* invocations started so far
    today,            \* datetime.today() of this invocation (an ordinal)
    current,          \* <<current_year, current_quarter, current_lesson_number>>
    files,            \* names of the audio files in the working directory
    urls_txt,         \* urls.txt
    downloaded_txt,   \* downloaded.txt
    lesson_title,     \* local of search_and_save_urls
    chan,             \* index of the channel loop
    downloaded_urls,  \* local of download_audio_from_urls: the membership set
    urls,             \* local of download_audio_from_urls: lines of urls.txt
    i,                \* index of the url loop
    day,              \* index of the daily loop
    cleanup_result,   \* how compare_and_cleanup_lesson_files ended in this invocation
    delete_errors,    \* names whose os.remove raised OSError in the purge
    queried,          \* channels passed to the Search Provider in this invocation
    found,            \* URLs the Search Provider returned in this invocation
    ledger0,          \* downloaded.txt as it was when the download step started
    attempts,         \* calls of the Download Provider in this call: <<url, ok>>
    prev_attempts,    \* the same for the previous stand-alone call
    calls,            \* stand-alone calls of download_audio_from_urls started
    YOUTUBE_API_KEY,  \* os.getenv('YOUTUBE_API_KEY') of this invocation
    published,        \* the CDN can answer 200 for the first so many days of a week
    steps,            \* the functions __main__ has called in this invocation, in order
    probes,           \* dates passed to requests.head in this call of the daily fetch
    fetch,            \* what became of requests.get for the last date of the daily fetch
    video_title,      \* the raw title handed to the title extraction on its own
    prev_today,       \* the date of the previous period calculation on its own
    prev_current      \* and the period it gave

vars == <<pc, runs, today, current, files, urls_txt, downloaded_txt, lesson_title, chan,
          downloaded_urls, urls, i, day, cleanup_result, delete_errors,
          queried, found, ledger0, attempts, prev_attempts, calls,
          YOUTUBE_API_KEY, published, steps, probes, fetch, video_title, prev_today, prev_current>>

fsVars == <<files, urls_txt, downloaded_txt>>
searchLocals == <<lesson_title, chan>>
downloadLocals == <<downloaded_urls, urls, i>>
cleanupLog == <<cleanup_result, delete_errors>>
searchLog == <<queried, found>>
downloadLog == <<ledger0, attempts, prev_attempts, calls>>
environ == <<YOUTUBE_API_KEY, published>>
dailyLog == <<probes, fetch>>
harnessVars == <<video_title, prev_today, prev_current>>

\* os.getenv('YOUTUBE_API_KEY'): None when the variable is not set
Keys == {None, "", "key"}

\* requests.get has not been called for the date
NoFetch == "not_called"

Init ==
    /\ pc = "import"
    /\ runs = 1
    /\ today = FirstDay
    /\ current = <<0, 0, 0>>
    /\ files \in InitialDirs
    /\ urls_txt = Absent
    /\ downloaded_txt = Absent
    /\ lesson_title = NoneTitle
    /\ chan = 0
    /\ downloaded_urls = {}
    /\ urls = <<>>
    /\ i = 0
    /\ day = 0
    /\ cleanup_result = "not_run"
    /\ delete_errors = {}
    /\ queried = <<>>
    /\ found = <<>>
    /\ ledger0 = Absent
    /\ attempts = <<>>
    /\ prev_attempts = <<>>
    /\ calls = 0
    /\ YOUTUBE_API_KEY \in Keys
    /\ published = MaxDailyFiles
    /\ steps = <<>>
    /\ probes = <<>>
    /\ fetch = NoFetch
    /\ video_title = <<>>
    /\ prev_today = 0
    /\ prev_current = <<0, 0, 0>>

\* ------------------------------------------------------- module start-up
\* lines 14-46: os.getenv, the EnvironmentError, build()
\* mutant: the check of line 41 is missing
key_missing_Never(key) == FALSE

\* line 41: `not YOUTUBE_API_KEY`
key_missing(key) == key = None \/ key = ""

Import ==
    /\ pc = "import"
    /\ pc' = IF key_missing(YOUTUBE_API_KEY) THEN "EnvironmentError" ELSE "main"
    /\ UNCHANGED <<environ, steps, dailyLog, harnessVars>>
    /\ UNCHANGED <<runs, today, current, fsVars, searchLocals, downloadLocals, day,
                   cleanupLog, searchLog, downloadLog>>

\* lines 355-359
MainPeriod ==
    /\ pc = "main"
    /\ current' = <<YearOf(today), get_quarter_and_week(today)[1], get_quarter_and_week(today)[2]>>
    /\ pc' = "cleanup"
    /\ steps' = Append(steps, "get_quarter_and_week")
    /\ UNCHANGED <<environ, dailyLog, harnessVars>>
    /\ UNCHANGED <<runs, today, fsVars, searchLocals, downloadLocals, day,
                   cleanupLog, searchLog, downloadLog>>

\* --------------------------------------- compare_and_cleanup_lesson_files
URLS_TXT == <<"urls.txt">>
DOWNLOADED_TXT == <<"downloaded.txt">>

IsAudio(name) == GlobExt(name, Dot_mp3) \/ GlobExt(name, Dot_m4a)

\* glob.glob("*Lesson*.mp3") + glob.glob("*Lesson*.m4a"), each in any order
ScanLists(F) ==
    {a \o b : a \in Orders({f \in F : GlobLesson(f, Dot_mp3)}),
              b \in Orders({f \in F : GlobLesson(f, Dot_m4a)})}

\* mutant: a name without the pattern counts as stale
is_stale_NoMatchIsStale(file_name, cur) == ~lesson_match(file_name) \/ is_older(lesson_groups(file_name), cur)

\* lines 251-260 for one file
is_stale(file_name, cur) == lesson_match(file_name) /\ is_older(lesson_groups(file_name), cur)

\* mutant: the loop ends at the first file that matches the pattern
RECURSIVE scan_purges_StopAtFirstMatch(_, _, _)
scan_purges_StopAtFirstMatch(list, k, cur) ==
    IF k > Len(list) THEN FALSE
    ELSE IF lesson_match(list[k]) THEN is_older(lesson_groups(list[k]), cur)
    ELSE scan_purges_StopAtFirstMatch(list, k + 1, cur)

\* the loop of lines 249-268 from position k: TRUE when it calls delete_audio_files
RECURSIVE scan_purges(_, _, _)
scan_purges(list, k, cur) ==
    IF k > Len(list) THEN FALSE
    ELSE IF is_stale(list[k], cur) THEN TRUE
    ELSE scan_purges(list, k + 1, cur)

\* what delete_audio_files tries to remove
PurgeTargets(F, u, d) ==
    {f \in F : IsAudio(f)}
      \cup (IF d.exists THEN {DOWNLOADED_TXT} ELSE {})
      \cup (IF u.exists THEN {URLS_TXT} ELSE {})

\* the sets of names whose os.remove can raise OSError in one purge
DeleteFailures(targets) == {errs \in SUBSET targets : Cardinality(errs) <= MaxDeleteFail}

\* lines 270-289; errs are the names whose os.remove raises OSError
delete_audio_files(errs) ==
    /\ files' = {f \in files : ~IsAudio(f) \/ f \in errs}
    /\ downloaded_txt' = IF DOWNLOADED_TXT \in errs THEN downloaded_txt ELSE Absent
    /\ urls_txt' = IF URLS_TXT \in errs THEN urls_txt ELSE Absent

Cleanup ==
    /\ pc = "cleanup"
    /\ \E result \in {IF list = <<>> THEN "no_files"
                      ELSE IF scan_purges(list, 1, current) THEN "purged" ELSE "kept" :
                      list \in ScanLists(files)} :
         /\ cleanup_result' = result
         /\ IF result = "purged"
            THEN \E errs \in DeleteFailures(PurgeTargets(files, urls_txt, downloaded_txt)) :
                   /\ delete_errors' = errs
                   /\ delete_audio_files(errs)
            ELSE UNCHANGED <<fsVars, delete_errors>>
    /\ pc' = "search"
    /\ steps' = Append(steps, "compare_and_cleanup_lesson_files")
    /\ UNCHANGED <<environ, dailyLog, harnessVars>>
    /\ UNCHANGED <<runs, today, current, searchLocals, downloadLocals, day,
                   searchLog, downloadLog>>

\* --------------------------------------------------- search_and_save_urls
\* mutant: the old urls.txt is left in place
remove_if_exists_Keep(f) == f

\* lines 138-140
remove_if_exists(f) == Absent

\* lines 137-147: remove urls.txt, look the title up, return when there is none
SearchBegin ==
    /\ pc = "search"
    /\ \E title \in {get_lesson_title(resp) : resp \in TitleResponses} :
         /\ lesson_title' = title
         /\ pc' = IF NoTitle(title) THEN "download" ELSE "search_loop"
    /\ urls_txt' = remove_if_exists(urls_txt)
    /\ chan' = 1
    /\ steps' = Append(steps, "search_and_save_urls")
    /\ UNCHANGED <<environ, dailyLog, harnessVars>>
    /\ UNCHANGED <<runs, today, current, files, downloaded_txt, downloadLocals, day,
                   cleanupLog, searchLog, downloadLog>>

\* lines 150-165 for one channel
SearchChannel ==
    /\ pc = "search_loop"
    /\ \E video_url \in {search_videos_on_youtube(resp) : resp \in SearchResponses} :
             /\ video_url # None => Len(urls_txt.lines) < MaxStoreLines
             /\ urls_txt' = IF video_url # None THEN AppendLine(urls_txt, video_url) ELSE urls_txt
             /\ found' = IF video_url # None THEN Append(found, video_url) ELSE found
    /\ queried' = Append(queried, CHANNEL_IDS[chan])
    /\ chan' = chan + 1
    /\ pc' = IF chan = Len(CHANNEL_IDS) THEN "download" ELSE "search_loop"
    /\ UNCHANGED <<environ, steps, dailyLog, harnessVars>>
    /\ UNCHANGED <<runs, today, current, files, downloaded_txt, lesson_title, downloadLocals, day,
                   cleanupLog, downloadLog>>

\* ----------------------------------------------- download_audio_from_urls
\* lines 206-219: create the ledger when absent, load it, read urls.txt;
\* open(url_file, 'r') raises FileNotFoundError when urls.txt is absent.
\* The locals and logs of the steps before are dropped here.
DownloadBegin ==
    /\ pc = "download"
    /\ downloaded_txt' = IF downloaded_txt.exists THEN downloaded_txt ELSE TextFile(<<>>)
    /\ downloaded_urls' = LineSet(downloaded_txt)
    /\ attempts' = <<>>
    /\ ledger0' = downloaded_txt
    /\ IF urls_txt.exists
       THEN /\ urls' = urls_txt.lines
            /\ i' = 1
            /\ pc' = IF urls_txt.lines = <<>> THEN "download_return" ELSE "download_loop"
       ELSE /\ pc' = "FileNotFoundError"
            /\ UNCHANGED <<urls, i>>
    /\ lesson_title' = NoneTitle
    /\ cleanup_result' = "not_run"
    /\ delete_errors' = {}
    /\ queried' = <<>>
    /\ steps' = Append(steps, "download_audio_from_urls")
    /\ UNCHANGED <<environ, dailyLog, harnessVars>>
    /\ UNCHANGED <<runs, today, current, files, urls_txt, chan, day, found, prev_attempts, calls>>

\* mutant: the membership test is dropped
not_downloaded_Always(url, seen) == TRUE

\* line 223
not_downloaded(url, seen) == url \notin seen

\* mutant: the URL is recorded before the download is known to have succeeded
record_download_Always(f, url, ok) == AppendLine(f, url)

\* mutant: the ledger is rewritten instead of appended to
record_download_Rewrite(f, url, ok) == IF ok THEN TextFile(<<url>>) ELSE f

\* mutant: a URL already in the ledger file is not written again
record_download_Once(f, url, ok) == IF ok /\ url \notin LineSet(f) THEN AppendLine(f, url) ELSE f

\* lines 226-231: the ledger after ydl.download returned (ok) or raised
record_download(f, url, ok) == IF ok THEN AppendLine(f, url) ELSE f

\* lines 222-233 for one url; ok tells whether ydl.download returns or raises
DownloadUrl ==
    /\ pc = "download_loop"
    /\ LET url == urls[i]
       IN  IF not_downloaded(url, downloaded_urls)
           THEN \E ok \in BOOLEAN :
                  /\ attempts' = Append(attempts, <<url, ok>>)
                  /\ files' = IF ok THEN files \cup {VideoFile(url)} ELSE files
                  /\ downloaded_txt' = record_download(downloaded_txt, url, ok)
           ELSE UNCHANGED <<attempts, files, downloaded_txt>>
    /\ i' = i + 1
    /\ pc' = IF i = Len(urls) THEN "download_return" ELSE "download_loop"
    /\ UNCHANGED <<environ, steps, dailyLog, harnessVars>>
    /\ UNCHANGED <<runs, today, current, urls_txt, searchLocals, downloaded_urls, urls, day,
                   cleanupLog, searchLog, ledger0, prev_attempts, calls>>

\* ------------------------------------- download_daily_lesson_audio_files
\* mutant: the week is taken to start on Sunday
last_saturday_Sunday(t) == t - ((Weekday(t) + 1) % 7)

\* line 299
last_saturday(t) == t - ((Weekday(t) + 2) % 7)

\* line 371 and lines 296-299; the locals and the log of the download step are dropped
DailyBegin ==
    /\ pc = "download_return"
    /\ calls = 0
    /\ day' = 0
    /\ pc' = "daily_loop"
    /\ chan' = 0
    /\ downloaded_urls' = {}
    /\ urls' = <<>>
    /\ i' = 0
    /\ found' = <<>>
    /\ ledger0' = Absent
    /\ attempts' = <<>>
    /\ steps' = Append(steps, "download_daily_lesson_audio_files")
    /\ probes' = <<>>
    /\ fetch' = NoFetch
    /\ UNCHANGED <<environ, harnessVars>>
    /\ UNCHANGED <<runs, today, current, fsVars, lesson_title, cleanupLog, queried,
                   prev_attempts, calls>>

\* requests.head(url): the status of a published file is 200, the probe of
\* any date can also give 404 or raise
HeadResults(offset, n) == (IF offset < n THEN {"200"} ELSE {}) \cup {"404", "RequestException"}

\* requests.get(url) and the writing of the file, lines 335-349: it goes well,
\* or an exception is raised before the file is opened, or ("partial") while
\* the chunks are written to the file that line 337 has created
GetResults == {"ok", "Timeout", "ConnectionError", "HTTPError", "Exception", "partial"}

\* download_file(url), lines 321-349: <<the directory after it, what became of
\* the call of requests.get>>; one of the handlers of lines 342-349 catches
\* whatever is raised
download_file(F, local_filename, get) ==
    IF local_filename \in F THEN <<F, "not_called">>
    ELSE IF get = "ok" THEN <<F \cup {local_filename}, "downloaded">>
    ELSE IF get = "partial" THEN <<F \cup {local_filename}, "caught_partial">>
    ELSE <<F, "caught">>

\* mutant: the status of the probe is not looked at
fetch_date_IgnoreStatus(F, local_filename, head, get) ==
    IF head # "RequestException" /\ local_filename \notin F
    THEN download_file(F, local_filename, get)
    ELSE <<F, "not_called">>

\* lines 308-319 for one date: <<the directory after it, what became of the
\* call of requests.get>>; a RequestException of the probe is caught at line 318
fetch_date(F, local_filename, head, get) ==
    IF head = "200" /\ local_filename \notin F
    THEN download_file(F, local_filename, get)
    ELSE <<F, "not_called">>

\* what one date's iteration can end with
fetch_outcomes(F, local_filename, offset, n) ==
    {fetch_date(F, local_filename, head, get) : head \in HeadResults(offset, n), get \in GetResults}

DailyDate ==
    /\ pc = "daily_loop"
    /\ probes' = Append(probes, last_saturday(today) + day)
    /\ \E local_filename \in {DailyName(last_saturday(today) + day)} :
         \E o \in fetch_outcomes(files, local_filename, day, published) :
            /\ files' = o[1]
            /\ fetch' = o[2]
    /\ day' = day + 1
    /\ pc' = IF day = 6 THEN "done" ELSE "daily_loop"
    /\ UNCHANGED <<environ, steps, harnessVars>>
    /\ UNCHANGED <<runs, today, current, urls_txt, downloaded_txt, searchLocals, downloadLocals,
                   cleanupLog, searchLog, downloadLog>>

\* ----------------------------------------------------- the next invocation
Ended == pc \in {"done", "FileNotFoundError", "EnvironmentError"}

NextInvocation ==
    /\ Ended
    /\ calls = 0
    /\ runs < MaxRuns
    /\ runs' = runs + 1
    /\ today' \in {t \in RunDays : t >= today}
    /\ pc' = "import"
    /\ current' = <<0, 0, 0>>
    /\ lesson_title' = NoneTitle
    /\ chan' = 0
    /\ downloaded_urls' = {}
    /\ urls' = <<>>
    /\ i' = 0
    /\ day' = 0
    /\ cleanup_result' = "not_run"
    /\ delete_errors' = {}
    /\ queried' = <<>>
    /\ found' = <<>>
    /\ attempts' = <<>>
    /\ ledger0' = Absent
    /\ YOUTUBE_API_KEY' \in Keys
    /\ steps' = <<>>
    /\ probes' = <<>>
    /\ fetch' = NoFetch
    /\ UNCHANGED <<fsVars, prev_attempts, calls, published, harnessVars>>

Next ==
    \/ Import
    \/ MainPeriod
    \/ Cleanup
    \/ SearchBegin
    \/ SearchChannel
    \/ DownloadBegin
    \/ DownloadUrl
    \/ DailyBegin
    \/ DailyDate
    \/ NextInvocation

Spec == Init /\ [][Next]_vars

\* --------------------- download_audio_from_urls called on its own, repeatedly
InitDL ==
    /\ pc = "download"
    /\ calls = 1
    /\ runs = 1
    /\ today = FirstDay
    /\ current = <<0, 0, 0>>
    /\ files = {}
    /\ urls_txt \in {Absent} \cup {TextFile(ls) : ls \in SeqsUpTo(URLS, MaxLen)}
    /\ downloaded_txt \in {Absent} \cup {TextFile(ls) : ls \in SeqsUpTo(URLS, MaxLen)}
    /\ lesson_title = NoneTitle
    /\ chan = 0
    /\ downloaded_urls = {}
    /\ urls = <<>>
    /\ i = 0
    /\ day = 0
    /\ cleanup_result = "not_run"
    /\ delete_errors = {}
    /\ queried = <<>>
    /\ found = <<>>
    /\ ledger0 = Absent
    /\ attempts = <<>>
    /\ prev_attempts = <<>>
    /\ YOUTUBE_API_KEY = "key"
    /\ published = MaxDailyFiles
    /\ steps = <<>>
    /\ probes = <<>>
    /\ fetch = NoFetch
    /\ video_title = <<>>
    /\ prev_today = 0
    /\ prev_current = <<0, 0, 0>>

\* the function has returned and is called again with the same arguments
CallAgain ==
    /\ pc = "download_return"
    /\ calls >= 1
    /\ calls < MaxCalls
    /\ calls' = calls + 1
    /\ prev_attempts' = attempts
    /\ attempts' = <<>>
    /\ pc' = "download"
    /\ UNCHANGED <<environ, steps, dailyLog, harnessVars>>
    /\ UNCHANGED <<runs, today, current, fsVars, searchLocals, downloadLocals, day,
                   cleanupLog, searchLog, ledger0>>

NextDL ==
    \/ DownloadBegin
    \/ DownloadUrl
    \/ CallAgain

SpecDL == InitDL /\ [][NextDL]_vars

\* ------------------------- get_quarter_and_week called on its own, twice
\* the dates it is called with: from 2024-12-01 on
FirstDate == Ordinal(2024, 12, 1)
Dates == FirstDate..(FirstDate + MaxDays)

InitQW ==
    /\ pc = "main"
    /\ calls = 0
    /\ runs = 1
    /\ today \in Dates
    /\ current = <<0, 0, 0>>
    /\ files = {}
    /\ urls_txt = Absent
    /\ downloaded_txt = Absent
    /\ lesson_title = NoneTitle
    /\ chan = 0
    /\ downloaded_urls = {}
    /\ urls = <<>>
    /\ i = 0
    /\ day = 0
    /\ cleanup_result = "not_run"
    /\ delete_errors = {}
    /\ queried = <<>>
    /\ found = <<>>
    /\ ledger0 = Absent
    /\ attempts = <<>>
    /\ prev_attempts = <<>>
    /\ YOUTUBE_API_KEY = "key"
    /\ published = MaxDailyFiles
    /\ steps = <<>>
    /\ probes = <<>>
    /\ fetch = NoFetch
    /\ video_title = <<>>
    /\ prev_today = 0
    /\ prev_current = <<0, 0, 0>>

\* the function has returned and is called again, with the same or a later date
LaterDate ==
    /\ pc = "cleanup"
    /\ prev_today = 0
    /\ prev_today' = today
    /\ prev_current' = current
    /\ today' \in {t \in Dates : t >= today}
    /\ current' = <<0, 0, 0>>
    /\ steps' = <<>>
    /\ pc' = "main"
    /\ UNCHANGED <<runs, fsVars, searchLocals, downloadLocals, day, cleanupLog, searchLog,
                   downloadLog, environ, dailyLog, video_title>>

NextQW ==
    \/ MainPeriod
    \/ LaterDate

SpecQW == InitQW /\ [][NextQW]_vars

\* ------------------- download_daily_lesson_audio_files called on its own
\* values of datetime.today(): days in a row from Thursday 2024-12-26, so that
\* every weekday occurs and the week of Saturday 2024-12-28 crosses the year end
FirstToday == Ordinal(2024, 12, 26)
Todays == FirstToday..(FirstToday + MaxTodays)

\* the files of today and of the day before may already be in the directory,
\* and the CDN has published the files of the first days of the week
InitFetch ==
    /\ pc = "download_return"
    /\ calls = 0
    /\ runs = 1
    /\ today \in Todays
    /\ current = <<0, 0, 0>>
    /\ files \in SUBSET {DailyName(today), DailyName(today - 1)}
    /\ urls_txt = Absent
    /\ downloaded_txt = Absent
    /\ lesson_title = NoneTitle
    /\ chan = 0
    /\ downloaded_urls = {}
    /\ urls = <<>>
    /\ i = 0
    /\ day = 0
    /\ cleanup_result = "not_run"
    /\ delete_errors = {}
    /\ queried = <<>>
    /\ found = <<>>
    /\ ledger0 = Absent
    /\ attempts = <<>>
    /\ prev_attempts = <<>>
    /\ YOUTUBE_API_KEY = "key"
    /\ published \in 0..7
    /\ steps = <<>>
    /\ probes = <<>>
    /\ fetch = NoFetch
    /\ video_title = <<>>
    /\ prev_today = 0
    /\ prev_current = <<0, 0, 0>>

NextFetch ==
    \/ DailyBegin
    \/ DailyDate

SpecFetch == InitFetch /\ [][NextFetch]_vars

\* ------------------------------- the title extraction of get_lesson_title on its own
\* characters of the raw titles: white space, the four quote marks of line
\* 122 (the curly ones written LDQ and RDQ), a letter and the pipe
TitleChars == {" ", "\"", "LDQ", "RDQ", "'", "A", "|"}

InitTitle ==
    /\ pc = "title"
    /\ calls = 0
    /\ runs = 1
    /\ today = FirstDay
    /\ current = <<0, 0, 0>>
    /\ files = {}
    /\ urls_txt = Absent
    /\ downloaded_txt = Absent
    /\ lesson_title = NoneTitle
    /\ chan = 0
    /\ downloaded_urls = {}
    /\ urls = <<>>
    /\ i = 0
    /\ day = 0
    /\ cleanup_result = "not_run"
    /\ delete_errors = {}
    /\ queried = <<>>
    /\ found = <<>>
    /\ ledger0 = Absent
    /\ attempts = <<>>
    /\ prev_attempts = <<>>
    /\ YOUTUBE_API_KEY = "key"
    /\ published = MaxDailyFiles
    /\ steps = <<>>
    /\ probes = <<>>
    /\ fetch = NoFetch
    /\ video_title \in SeqsUpTo(TitleChars, MaxTitleLen)
    /\ prev_today = 0
    /\ prev_current = <<0, 0, 0>>

\* lines 116-127 for the first entry of the search results
TitleLookup ==
    /\ pc = "title"
    /\ lesson_title' = get_lesson_title([kind |-> "entry", title |-> video_title])
    /\ pc' = "title_return"
    /\ UNCHANGED <<runs, today, current, fsVars, chan, downloadLocals, day, cleanupLog, searchLog,
                   downloadLog, environ, steps, dailyLog, harnessVars>>

NextTitle == TitleLookup

SpecTitle == InitTitle /\ [][NextTitle]_vars

TypeOK ==
    /\ pc \in {"import", "EnvironmentError", "main", "cleanup", "search", "search_loop", "download",
               "download_loop", "download_return", "FileNotFoundError", "daily_loop", "done",
               "title", "title_return"}
    /\ runs \in 1..MaxRuns
    /\ \A k \in 1..Len(urls_txt.lines) : urls_txt.lines[k] \in URLS
    /\ ~urls_txt.exists => urls_txt.lines = <<>>
    /\ ~downloaded_txt.exists => downloaded_txt.lines = <<>>

\* ================================================================ claims
Range(q) == {q[k] : k \in 1..Len(q)}

IsPrefix(a, b) == Len(a) <= Len(b) /\ \A k \in 1..Len(a) : a[k] = b[k]

\* strictly less in lexicographic order on triples
LexLess(a, b) ==
    \/ a[1] < b[1]
    \/ (a[1] = b[1] /\ a[2] < b[2])
    \/ (a[1] = b[1] /\ a[2] = b[2] /\ a[3] < b[3])

\* a scanned file of F matches the period pattern and embeds a period before cur
StaleScanned(F, cur) ==
    \E f \in F :
       /\ GlobLesson(f, Dot_mp3) \/ GlobLesson(f, Dot_m4a)
       /\ lesson_match(f)
       /\ LexLess(lesson_groups(f), cur)

AudioNames(F) == {f \in F : EndsWith(f, Dot_mp3) \/ EndsWith(f, Dot_m4a)}

\* urls of the attempts of log q that succeeded / failed
OkUrls(q) == {q[k][1] : k \in {n \in 1..Len(q) : q[n][2]}}
FailedUrls(q) == {q[k][1] : k \in {n \in 1..Len(q) : ~q[n][2]}}
AttemptedUrls(q) == {q[k][1] : k \in 1..Len(q)}

\* C1: with the credential present the invocation never ends in an exception
\* that left a step: it always goes on to the daily fetch and finishes it.
C1_PipelineCompletes == pc # "FileNotFoundError"

C3_SecondRunDownloadsNothing == (calls = 2) => (attempts = <<>>)

\* C3 amended: the second call passes to the Download Provider only URLs all of
\* whose downloads failed in the first call, and none at all when no download
\* of the first call failed.
C3_SecondRunOnlyRetriesFailures ==
    (calls = 2) =>
       /\ \A k \in 1..Len(attempts) :
             /\ attempts[k][1] \in FailedUrls(prev_attempts)
             /\ attempts[k][1] \notin OkUrls(prev_attempts)
       /\ (FailedUrls(prev_attempts) = {}) => (attempts = <<>>)

C3_Witness ==
    /\ calls = 2
    /\ pc = "download_return"
    /\ Len(prev_attempts) = 2
    /\ FailedUrls(prev_attempts) = {}
    /\ attempts = <<>>

\* C4 as stated: a URL whose download failed is not in the ledger, and once the
\* next call on the same urls.txt has returned it has been attempted again.
C4_FailedUrlNeverRecorded ==
    /\ FailedUrls(attempts) \cap Range(downloaded_txt.lines) = {}
    /\ (calls = 2 /\ pc = "download_return") => FailedUrls(prev_attempts) \subseteq AttemptedUrls(attempts)

\* C4 amended: the ledger changes only by appending the URL whose download has
\* just succeeded; a failed download leaves the ledger as it was and the loop
\* goes on to the next URL; a URL all of whose downloads failed in a call is
\* not in the ledger after it, and the next call on the same urls.txt attempts
\* it again.
C4_FailureHandling ==
    [][/\ (downloaded_txt'.lines # downloaded_txt.lines) =>
             /\ pc = "download_loop"
             /\ attempts' = Append(attempts, <<urls[i], TRUE>>)
             /\ downloaded_txt'.lines = Append(downloaded_txt.lines, urls[i])
       /\ (pc = "download_loop" /\ urls[i] \notin Range(ledger0.lines)) =>
             /\ Len(attempts') = Len(attempts) + 1
             /\ attempts'[Len(attempts')][1] = urls[i]
             /\ attempts'[Len(attempts')][2] => downloaded_txt'.lines = Append(downloaded_txt.lines, urls[i])
             /\ i' = i + 1
             /\ pc' = (IF i < Len(urls) THEN "download_loop" ELSE "download_return")
       /\ (pc' = "download_return") =>
             (FailedUrls(attempts') \ OkUrls(attempts')) \cap Range(downloaded_txt'.lines) = {}
       /\ (calls' = 2 /\ pc' = "download_return") =>
             (FailedUrls(prev_attempts') \ OkUrls(prev_attempts')) \subseteq AttemptedUrls(attempts')
      ]_vars

C4_Witness ==
    /\ calls = 2
    /\ pc = "download_return"
    /\ prev_attempts = <<<<"u1", FALSE>>, <<"u2", TRUE>>>>
    /\ attempts = <<<<"u1", TRUE>>>>
    /\ downloaded_txt.lines = <<"u2", "u1">>

\* C5: no URL that was a line of the ledger when the download step started is
\* passed to the Download Provider in that step, and an absent ledger has been
\* created empty before it was read.
C5_LedgerSkips ==
    (pc \in {"download_loop", "download_return", "FileNotFoundError"}) =>
       /\ \A k \in 1..Len(attempts) : attempts[k][1] \notin Range(ledger0.lines)
       /\ downloaded_txt.exists
       /\ ~ledger0.exists => (downloaded_urls = {} /\ Len(downloaded_txt.lines) = Cardinality({k \in 1..Len(attempts) : attempts[k][2]}))

C5_Witness ==
    /\ pc = "download_return"
    /\ urls = <<"u1", "u2">>
    /\ ledger0.lines = <<"u1">>
    /\ attempts = <<<<"u2", TRUE>>>>

\* C6: when the title lookup gave a title, the search step passes the six
\* channels to the Search Provider once each in configuration order, whatever
\* the earlier channels answered, and urls.txt then holds exactly the URLs that
\* were returned, one per line, in that order.
C6_SearchResilience ==
    /\ (pc = "search_loop") => (queried = SubSeq(CHANNEL_IDS, 1, chan - 1) /\ urls_txt.lines = found)
    /\ (pc = "download" /\ calls = 0 /\ lesson_title \notin {NoneTitle, <<>>}) =>
          /\ queried = CHANNEL_IDS
          /\ urls_txt.lines = found
          /\ urls_txt.exists <=> (found # <<>>)

C6_Witness ==
    /\ pc = "download"
    /\ runs = 2
    /\ queried = CHANNEL_IDS
    /\ found = <<"u2", "u1">>
    /\ urls_txt.lines = <<"u2", "u1">>

\* C7: what the download step reads from urls.txt, and every URL it passes to
\* the Download Provider, was returned by the Search Provider in the same
\* invocation; nothing an earlier invocation wrote is left in the store.
C7_StoreIsCurrentRun ==
    (calls = 0) =>
       /\ (pc = "download") => (\A k \in 1..Len(urls_txt.lines) : urls_txt.lines[k] \in Range(found))
       /\ (pc \in {"download_loop", "download_return"}) => (Len(urls) = Len(found) /\ Range(urls) \subseteq Range(found))
       /\ AttemptedUrls(attempts) \subseteq Range(found)

C7_Witness ==
    /\ runs = 2
    /\ pc = "download_return"
    /\ ledger0.lines = <<"u1">>
    /\ found = <<"u2">>
    /\ urls = <<"u2">>

\* C8: when the title lookup gives no title or an empty one, the search step
\* returns to its caller having called the Search Provider for no channel and
\* written nothing, and urls.txt does not exist.
C8_NoTitleNoSearch ==
    [][(pc = "search" /\ lesson_title' \in {NoneTitle, <<>>}) =>
          /\ pc' = "download"
          /\ queried' = <<>>
          /\ found' = <<>>
          /\ ~urls_txt'.exists
          /\ files' = files
          /\ downloaded_txt' = downloaded_txt]_vars

C8_Witness ==
    /\ pc = "download"
    /\ runs = 2
    /\ lesson_title = <<>>
    /\ queried = <<>>
    /\ downloaded_txt.lines # <<>>
    /\ ~urls_txt.exists

\* C9: when no scanned file matches the period pattern with a period before the
\* current one, the cleanup deletes no audio file and leaves urls.txt and
\* downloaded.txt as they are.
C9_CleanupFrame ==
    [][(pc = "cleanup" /\ ~StaleScanned(files, current)) =>
          /\ cleanup_result' # "purged"
          /\ files' = files
          /\ urls_txt' = urls_txt
          /\ downloaded_txt' = downloaded_txt]_vars

C9_Witness ==
    /\ pc = "search"
    /\ cleanup_result = "kept"
    /\ (Word_Lesson \o Dot_mp3) \in files
    /\ LessonName(3, Dot_m4a) \in files
    /\ urls_txt.exists
    /\ downloaded_txt.lines # <<>>

\* C10: from one state to the next the lines of the ledger stay as they are or
\* get lines appended, except in the step in which a cleanup purges.
C10_LedgerMonotone ==
    [][(pc = "cleanup" /\ cleanup_result' = "purged") \/ IsPrefix(downloaded_txt.lines, downloaded_txt'.lines)]_vars

C10_Witness ==
    /\ runs = 2
    /\ pc = "download_return"
    /\ ledger0.lines = <<"u1">>
    /\ downloaded_txt.lines = <<"u1", "u2">>

\* less or equal in lexicographic order on triples
LexLE(a, b) == a = b \/ LexLess(a, b)

\* the Saturday on or before date n, found by looking at the seven candidates
SaturdayOnOrBefore(n) == CHOOSE s \in (n - 6)..n : Weekday(s) = 5

C12_SevenDates ==
    /\ (pc \in {"daily_loop", "done"}) =>
          /\ Len(probes) = (IF pc = "done" THEN 7 ELSE day)
          /\ \A k \in 1..Len(probes) : probes[k] = probes[1] + (k - 1)
          /\ (probes # <<>>) =>
                /\ Weekday(probes[1]) = 5
                /\ probes[1] <= today
                /\ today - probes[1] <= 6
    /\ (pc = "done") => (\E k \in 1..7 : probes[k] = today)

C12_Witness ==
    /\ pc = "done"
    /\ today = Ordinal(2025, 1, 1)
    /\ probes[1] = Ordinal(2024, 12, 28)
    /\ probes[7] = Ordinal(2025, 1, 3)

\* C13: in the iteration of one date requests.get is called only when the CDN
\* can answer 200 for the date and no local file of the date exists; a local
\* file that exists is left as it is; the directory changes only by the file
\* of the date, and only when requests.get was called; whatever the probe and
\* the download met, errors included, the loop goes on to the next date.
C13_PerDateHandling ==
    [][(pc = "daily_loop") =>
          LET download_date == probes'[Len(probes')]
              name == DailyName(download_date)
          IN  /\ probes' = Append(probes, download_date)
              /\ (fetch' # "not_called") => (name \notin files /\ day < published)
              /\ (name \in files) => (files' = files /\ fetch' = "not_called")
              /\ (files' # files) => (files' = files \cup {name} /\ fetch' \in {"downloaded", "caught_partial"})
              /\ (fetch' = "caught") => (files' = files)
              /\ day' = day + 1
              /\ pc' = (IF day < 6 THEN "daily_loop" ELSE "done")]_vars

C13_Witness ==
    /\ pc = "done"
    /\ today = Ordinal(2025, 1, 1)
    /\ published = 7
    /\ fetch = "caught"
    /\ files = {DailyName(today), DailyName(Ordinal(2024, 12, 28))}

\* C14: for a raw title with a pipe the extracted title is what is left of the
\* first pipe, without surrounding white space and without any of the four
\* quote marks at either end; for a raw title without a pipe it is the whole
\* title without surrounding white space.
C14_TitleExtraction ==
    (pc = "title_return") =>
       LET quotes == {"\"", "LDQ", "RDQ", "'"}
           pipes == {k \in 1..Len(video_title) : video_title[k] = "|"}
           first == CHOOSE k \in pipes : \A j \in pipes : k <= j
       IN  IF pipes = {}
           THEN lesson_title = Strip(video_title, {" "})
           ELSE lesson_title = Strip(Strip(SubSeq(video_title, 1, first - 1), {" "}), quotes)

\* the steps of __main__ in the order of lines 356-371
MainSteps ==
    <<"get_quarter_and_week", "compare_and_cleanup_lesson_files", "search_and_save_urls",
      "download_audio_from_urls", "download_daily_lesson_audio_files">>

\* C15: the steps an invocation has started are the period calculation, the
\* cleanup, the search, the download and the daily fetch, each once and in
\* this order; the cleanup runs before the search and the download have
\* written anything; an invocation that has ended has run all five.
C15_PipelineOrder ==
    /\ IsPrefix(steps, MainSteps)
    /\ (pc = "cleanup") => (steps = <<"get_quarter_and_week">>)
    /\ (pc \in {"done", "FileNotFoundError"}) => (steps = MainSteps)

\* C16: in an invocation whose environment has no YOUTUBE_API_KEY (or an empty one) the only
\* step is the one from the start of the script to the EnvironmentError; it
\* leaves the audio files, urls.txt and downloaded.txt as they are, no step of
\* __main__ is started and no title lookup, search, download or probe is made.
C16_MissingCredentialHalts ==
    [][(YOUTUBE_API_KEY \in {None, ""} /\ runs' = runs) =>
          /\ pc = "import"
          /\ pc' = "EnvironmentError"
          /\ files' = files
          /\ urls_txt' = urls_txt
          /\ downloaded_txt' = downloaded_txt
          /\ steps' = <<>>
          /\ lesson_title' = NoneTitle
          /\ queried' = <<>>
          /\ found' = <<>>
          /\ attempts' = <<>>
          /\ probes' = <<>>
          /\ fetch' = "not_called"]_vars

C16_Witness ==
    /\ pc = "EnvironmentError"
    /\ YOUTUBE_API_KEY = None
    /\ runs = 2
    /\ urls_txt.lines = <<"u1", "u2">>
    /\ downloaded_txt.lines = <<"u2">>
    /\ VideoFile("u2") \in files

\* how often x occurs in the sequence q
Count(q, x) == Cardinality({k \in 1..Len(q) : q[k] = x})

\* C17: during a call of download_audio_from_urls the membership set stays the
\* set of lines the ledger had at the start; when the call has returned, a URL
\* that was not in the ledger at the start has been passed to the Download
\* Provider once for every line of urls.txt that holds it, and the ledger has
\* one line more for each of these downloads that succeeded.
C17_NoDeduplication ==
    /\ (pc \in {"download_loop", "download_return"}) => (downloaded_urls = Range(ledger0.lines))
    /\ (pc = "download_return") =>
          \A u \in URLS \ Range(ledger0.lines) :
             /\ Count(attempts, <<u, TRUE>>) + Count(attempts, <<u, FALSE>>) = Count(urls, u)
             /\ Count(downloaded_txt.lines, u) = Count(attempts, <<u, TRUE>>)

C17_Witness ==
    /\ pc = "download_return"
    /\ urls = <<"u1", "u1">>
    /\ ledger0.lines = <<"u2">>
    /\ attempts = <<<<"u1", TRUE>>, <<"u1", TRUE>>>>
    /\ downloaded_txt.lines = <<"u2", "u1", "u1">>

\* C18 (its first half): a second invocation on the day of the first one, so
\* at the same current period, that finds only audio files the first
\* invocation produced and every URL of urls.txt recorded in downloaded.txt
\* (each download of the first invocation succeeded), purges nothing,
\* whatever period the names of these files embed.
C18_SecondRunPurgesNothing ==
    [][(/\ pc = "cleanup"
        /\ runs = 2
        /\ today = FirstDay
        /\ files \cap InitialFiles = {}
        /\ urls_txt.exists
        /\ Range(urls_txt.lines) \subseteq Range(downloaded_txt.lines))
       => (cleanup_result' # "purged")]_vars

\* C19: when get_quarter_and_week is called for a date and then for the same
\* or a later date, the triple (year, quarter, week) of the first date is
\* lexicographically less than or equal to the triple of the second.
C19_PeriodMonotone ==
    (pc = "cleanup" /\ prev_today # 0 /\ prev_today <= today) => LexLE(prev_current, current)

C19_Witness ==
    /\ pc = "cleanup"
    /\ prev_today = Ordinal(2024, 12, 31)
    /\ prev_current = <<2024, 4, 14>>
    /\ today = Ordinal(2025, 1, 1)
    /\ current = <<2025, 1, 1>>

\* C20: two dates of the same Saturday-to-Friday week get the same quarter and
\* the same week from get_quarter_and_week, and every date from 2024-12-28 to
\* 2025-01-03 gets quarter 1, week 1.
C20_WeekAlignment ==
    (pc = "cleanup") =>
       /\ (prev_today # 0 /\ SaturdayOnOrBefore(prev_today) = SaturdayOnOrBefore(today)) =>
             (prev_current[2] = current[2] /\ prev_current[3] = current[3])
       /\ (Ordinal(2024, 12, 28) <= today /\ today <= Ordinal(2025, 1, 3)) =>
             (current[2] = 1 /\ current[3] = 1)

====
